---------------------------- MODULE Spec2Model ----------------------------
(***************************************************************************)
(* Model of the GBIF occurrence curation pipeline (gbifcurador.py) and of  *)
(* the shapefile boundary checker (vsSHP_BUFFER.py).                       *)
(*                                                                         *)
(* A DataFrame is a record [columns, rows]: columns is the sequence of     *)
(* column labels, rows the sequence of [idx, cells] where idx is the       *)
(* pandas index label and cells maps every column label to its value.      *)
(* A float is the decimal [kind, neg, m, s] of value (-1)^neg * m / 10^s   *)
(* in shortest form (s = 0 or m not a multiple of 10), or NaN.             *)
(***************************************************************************)
EXTENDS Integers, Sequences, FiniteSets, TLC

(***************************************************************************)
(* Floats and their default textual form (Python's str / repr of a float)  *)
(***************************************************************************)
RECURSIVE Pow10(_)
Pow10(k) == IF k = 0 THEN 1 ELSE 10 * Pow10(k - 1)

DigitChar(d) == <<"0", "1", "2", "3", "4", "5", "6", "7", "8", "9">>[d + 1]

RECURSIVE Digits(_)
Digits(m) == IF m < 10 THEN <<DigitChar(m)>>
             ELSE Append(Digits(m \div 10), DigitChar(m % 10))

RECURSIVE Zeros(_)
Zeros(k) == IF k <= 0 THEN <<>> ELSE <<"0">> \o Zeros(k - 1)

Float(neg, m, s) == [kind |-> "float", neg |-> neg, m |-> m, s |-> s]

NaN == [kind |-> "nan", neg |-> FALSE, m |-> 0, s |-> 0]

\* the exponent suffix of repr: sign and at least two digits
ExpSuffix(e) ==
    LET a == IF e < 0 THEN -e ELSE e
    IN  <<"e", IF e < 0 THEN "-" ELSE "+">>
          \o (IF a < 10 THEN <<"0">> ELSE <<>>) \o Digits(a)

\* str(value) for a float: shortest digits, exponent form iff decpt <= -4 or > 16
str(x) ==
    IF x.kind = "nan" THEN <<"n", "a", "n">>
    ELSE
    LET digs  == Digits(x.m)
        n     == Len(digs)
        decpt == n - x.s
        sign  == IF x.neg THEN <<"-">> ELSE <<>>
        body  ==
          IF x.m = 0 THEN <<"0", ".", "0">>
          ELSE IF decpt <= -4 \/ decpt > 16
            THEN <<digs[1]>>
                   \o (IF n > 1 THEN <<".">> \o SubSeq(digs, 2, n) ELSE <<>>)
                   \o ExpSuffix(decpt - 1)
          ELSE IF decpt <= 0 THEN <<"0", ".">> \o Zeros(-decpt) \o digs
          ELSE IF decpt >= n THEN digs \o Zeros(decpt - n) \o <<".", "0">>
          ELSE SubSeq(digs, 1, decpt) \o <<".">> \o SubSeq(digs, decpt + 1, n)
    IN  sign \o body

\* text.split('.') : the pieces between the separators
RECURSIVE split(_, _)
split(text, sep) ==
    IF \A i \in 1..Len(text) : text[i] # sep THEN <<text>>
    ELSE LET i == CHOOSE j \in 1..Len(text) :
                     text[j] = sep /\ \A k \in 1..(j - 1) : text[k] # sep
         IN  <<SubSeq(text, 1, i - 1)>> \o split(SubSeq(text, i + 1, Len(text)), sep)

\* the whole part of |x|
IntPart(x) == IF x.s >= Len(Digits(x.m)) THEN 0 ELSE x.m \div Pow10(x.s)

\* x <= k and x >= k for an integer k
LeInt(x, k) ==
    IF x.neg /\ x.m # 0
      THEN k >= 0 \/ IntPart(x) >= -k
      ELSE k >= 0 /\ (IntPart(x) < k \/ (IntPart(x) = k /\ (x.s = 0 \/ x.m = 0)))

GeInt(x, k) == LeInt([x EXCEPT !.neg = ~x.neg], -k)

\* Series.between(left, right): inclusive on both sides, False for NaN
between(x, left, right) == x.kind = "float" /\ GeInt(x, left) /\ LeInt(x, right)

RECURSIVE Canonical(_, _)
Canonical(m, s) == IF s > 0 /\ m % 10 = 0 THEN Canonical(m \div 10, s - 1)
                   ELSE <<m, s>>

\* Series.round(decimals): rint(x * 10^decimals) / 10^decimals, ties to even
round(x, decimals) ==
    IF x.kind = "nan" \/ x.s <= decimals THEN x
    ELSE LET p    == Pow10(x.s - decimals)
             q    == x.m \div p
             r    == x.m % p
             half == 5 * Pow10(x.s - decimals - 1)
             up   == r > half \/ (r = half /\ q % 2 = 1)
             c    == Canonical(IF up THEN q + 1 ELSE q, decimals)
         IN  Float(x.neg, c[1], c[2])

(***************************************************************************)
(* Dates: an eventDate text, pd.to_datetime, and the datetime bounds       *)
(***************************************************************************)
\* an eventDate as the source gives it: an ISO text "y-mo-dTh:00:00" (with a
\* UTC designator when tz), a text that is no date ("text"), or missing ("nan")
DateText(kind, y, mo, d, h, tz) ==
    [kind |-> kind, y |-> y, mo |-> mo, d |-> d, h |-> h, tz |-> tz]

NaT == DateText("NaT", 0, 0, 0, 0, FALSE)

\* datetime(year, month, day)
datetime(y, mo, d) == DateText("Timestamp", y, mo, d, 0, FALSE)

IsLeap(y) == (y % 4 = 0 /\ y % 100 # 0) \/ y % 400 = 0

DaysIn(y, mo) ==
    IF mo = 2 THEN (IF IsLeap(y) THEN 29 ELSE 28)
    ELSE IF mo \in {4, 6, 9, 11} THEN 30 ELSE 31

\* pd.to_datetime(date, errors='coerce')
to_datetime(date) ==
    IF date.kind = "Timestamp" THEN date
    ELSE IF /\ date.kind = "iso"
            /\ date.mo \in 1..12
            /\ date.d \in 1..DaysIn(date.y, date.mo)
            /\ date.h \in 0..23
      THEN [date EXCEPT !.kind = "Timestamp"]
      ELSE NaT

\* position of a timestamp on the time line
Instant(t) == ((t.y * 13 + t.mo) * 32 + t.d) * 24 + t.h

\* is_valid_date: the comparison of a tz-aware timestamp with the tz-naive
\* bounds raises TypeError, which the except clause turns into NaT
is_valid_date(date, min_date, max_date) ==
    LET t == to_datetime(date)
    IN  IF t.kind = "NaT" THEN NaT
        ELSE IF t.tz THEN NaT
        ELSE IF Instant(min_date) <= Instant(t) /\ Instant(t) <= Instant(max_date)
          THEN t
          ELSE NaT

(***************************************************************************)
(* DataFrames                                                              *)
(***************************************************************************)
SeqsUpTo(S, k) == UNION {[1..n -> S] : n \in 0..k}

Range(f) == {f[i] : i \in DOMAIN f}

\* seq[mask]: the elements of seq at the positions where the mask is true
RECURSIVE Masked(_, _)
Masked(seq, mask) ==
    IF seq = <<>> THEN <<>>
    ELSE Masked(SubSeq(seq, 1, Len(seq) - 1), mask)
           \o (IF mask[Len(seq)] THEN <<seq[Len(seq)]>> ELSE <<>>)

\* the columns the source's records carry, in the order the source gives them
SourceColumns ==
    <<"key", "basisOfRecord", "institutionCode", "decimalLatitude",
      "decimalLongitude", "eventDate", "species", "country",
      "identificationID", "identifiedBy">>

\* the value pandas fills in where a record lacks a key
Missing(col) ==
    IF col \in {"decimalLatitude", "decimalLongitude"} THEN NaN
    ELSE IF col = "eventDate" THEN DateText("nan", 0, 0, 0, 0, FALSE)
    ELSE "nan"

EmptyFrame == [columns |-> <<>>, rows |-> <<>>]

\* pd.DataFrame(list of dicts): the union of the keys, a RangeIndex from 0
DataFrame(records) ==
    LET keys == UNION {DOMAIN records[i] : i \in 1..Len(records)}
        cols == SelectSeq(SourceColumns, LAMBDA c : c \in keys)
    IN  [columns |-> cols,
         rows |-> [i \in 1..Len(records) |->
                     [idx |-> i - 1,
                      cells |-> [c \in Range(cols) |->
                                   IF c \in DOMAIN records[i] THEN records[i][c]
                                   ELSE Missing(c)]]]]

len(df) == Len(df.rows)

HasColumns(df, cols) == Range(cols) \subseteq Range(df.columns)

(***************************************************************************)
(* gbifcurador.py: the stages as functions of their input                  *)
(***************************************************************************)
\* text.replace(old, new) for a one-character old
RECURSIVE replace(_, _, _)
replace(text, old, new) ==
    IF text = <<>> THEN <<>>
    ELSE (IF Head(text) = old THEN new ELSE <<Head(text)>>)
           \o replace(Tail(text), old, new)

\* the search-results URL of fetch_all_gbif_data
SearchUrl(species_name) ==
    <<"https://www.gbif.org/occurrence/search?scientificName=">>
      \o replace(species_name, " ", <<"%", "2", "0">>)

\* the columns initial_cleaning selects, in its order
columns ==
    <<"species", "decimalLatitude", "decimalLongitude", "country", "eventDate",
      "basisOfRecord", "institutionCode", "identificationID", "identifiedBy">>

\* df[cols]: the listed columns in the listed order, the index kept
Select(df, cols) ==
    [columns |-> cols,
     rows |-> [i \in 1..len(df) |->
                 [idx |-> df.rows[i].idx,
                  cells |-> [c \in Range(cols) |-> df.rows[i].cells[c]]]]]

\* df[mask]: the rows at the positions where the boolean mask is true
Filter(df, mask) == [columns |-> df.columns, rows |-> Masked(df.rows, mask)]

\* a de-duplication that only looks at the row just before
drop_adjacent_duplicates(df) ==
    Filter(df, [i \in 1..len(df) |->
                  i = 1 \/ df.rows[i - 1].cells # df.rows[i].cells])

\* df.drop_duplicates(): every row equal in all columns to an earlier one goes
drop_duplicates(df) ==
    Filter(df, [i \in 1..len(df) |->
                  \A j \in 1..(i - 1) : df.rows[j].cells # df.rows[i].cells])

initial_cleaning(df) == drop_duplicates(Select(df, columns))

valid_decimals(value) ==
    LET parts == split(str(value), ".")
    IN  IF Len(parts) < 2 THEN FALSE    \* IndexError
        ELSE 3 <= Len(parts[2]) /\ Len(parts[2]) <= 8

\* the mask of the coordinate filter for one row
CoordMask(cells) ==
    /\ between(cells["decimalLatitude"], -90, 90)
    /\ between(cells["decimalLongitude"], -180, 180)
    /\ valid_decimals(cells["decimalLatitude"])
    /\ valid_decimals(cells["decimalLongitude"])

\* df.loc[:, col] = values
Assign(df, col, values) ==
    [df EXCEPT !.rows = [i \in 1..len(df) |->
        [df.rows[i] EXCEPT !.cells[col] = values[i]]]]

\* the mask of the coordinate filter
coordinate_mask(df) == [i \in 1..len(df) |-> CoordMask(df.rows[i].cells)]

\* df.loc[:, col] = df[col].round(8)
round_column(df, col) ==
    Assign(df, col, [i \in 1..len(df) |-> round(df.rows[i].cells[col], 8)])

\* df.loc[:, 'eventDate'] = df['eventDate'].apply(is_valid_date)
apply_is_valid_date(df, min_date, max_date) ==
    Assign(df, "eventDate",
           [i \in 1..len(df) |->
              is_valid_date(df.rows[i].cells["eventDate"], min_date, max_date)])

\* df[df['eventDate'].notnull()]
notnull_filter(df) ==
    Filter(df, [i \in 1..len(df) |-> df.rows[i].cells["eventDate"].kind # "NaT"])

\* a validator that takes both counts after the combined filter
validate_data_one_pass(df, min_date, max_date) ==
    LET df1 == Filter(df, coordinate_mask(df))
        df2 == round_column(round_column(df1, "decimalLatitude"), "decimalLongitude")
        df3 == apply_is_valid_date(df2, min_date, max_date)
        df4 == notnull_filter(df3)
    IN  [df |-> df4, initial_count |-> len(df),
         coord_valid_count |-> len(df4),
         date_valid_count |-> len(df4)]

validate_data(df, min_date, max_date) ==
    LET initial_count == len(df)
        df1 == Filter(df, coordinate_mask(df))
        df2 == round_column(round_column(df1, "decimalLatitude"), "decimalLongitude")
        coord_valid_count == len(df2)
        df3 == apply_is_valid_date(df2, min_date, max_date)
        df4 == notnull_filter(df3)
        date_valid_count == len(df4)
    IN  [df |-> df4, initial_count |-> initial_count,
         coord_valid_count |-> coord_valid_count,
         date_valid_count |-> date_valid_count]

\* Python's None and a value, and the truth value `if` gives them
None == [none |-> TRUE, value |-> 0]

Some(v) == [none |-> FALSE, value |-> v]

Truthy(r) == ~r.none /\ r.value # 0

\* validate_taxonomic_name, given the backbone's answer
validate_taxonomic_name(match) ==
    IF match["matchType"] # "NONE" THEN Some(match["usageKey"]) ELSE None

\* Series.unique(): the distinct values in first-seen order
RECURSIVE unique(_)
unique(seq) ==
    IF seq = <<>> THEN <<>>
    ELSE LET init == unique(SubSeq(seq, 1, Len(seq) - 1))
             last == seq[Len(seq)]
         IN  IF last \in Range(init) THEN init ELSE Append(init, last)

Column(df, col) == [i \in 1..len(df) |-> df.rows[i].cells[col]]

\* df[df['species'].isin(valid_species)]
isin_filter(df, valid_species) ==
    Filter(df, [i \in 1..len(df) |->
                  df.rows[i].cells["species"] \in Range(valid_species)])

\* pd.DataFrame(list of rows): the rows' labels; no columns when the list is empty
FrameOfRows(rows, cols) ==
    IF rows = <<>> THEN EmptyFrame ELSE [columns |-> cols, rows |-> rows]

\* df['dataSource'] = 'GBIF': the column is appended, or overwritten in place
enrich_data(df) ==
    [columns |-> IF "dataSource" \in Range(df.columns) THEN df.columns
                 ELSE Append(df.columns, "dataSource"),
     rows |-> [i \in 1..len(df) |->
                 [idx |-> df.rows[i].idx,
                  cells |-> [c \in Range(df.columns) \cup {"dataSource"} |->
                               IF c = "dataSource" THEN "GBIF"
                               ELSE df.rows[i].cells[c]]]]]

\* to_csv(index=False): the header and the rows' cells, the index left out
to_csv(df) == [columns |-> df.columns,
               rows |-> [i \in 1..len(df) |-> df.rows[i].cells]]

FileName(species_name, suffix) == replace(species_name, " ", <<"_">>) \o <<suffix>>

\* the report text of curate_data, one <<label, value>> per line
ReportText(species_name, url, initial, coord, date, geo, nvalid, curated) ==
    << <<"Species", species_name>>,
       <<"GBIF Data URL", url>>,
       <<"Total records fetched", initial>>,
       <<"Records after coordinate validation", coord>>,
       <<"Records after date validation", date>>,
       <<"Records after georeferencing validation", geo>>,
       <<"Valid species names found", nvalid>>,
       <<"Total curated records", curated>> >>

(***************************************************************************)
(* The records the occurrence source may return                            *)
(***************************************************************************)
IsoDate(y, mo, d, h, tz) == DateText("iso", y, mo, d, h, tz)

Occurrence(key, species, lat, lon, date) ==
    [c \in Range(SourceColumns) |->
       CASE c = "key" -> key
         [] c = "species" -> species
         [] c = "decimalLatitude" -> lat
         [] c = "decimalLongitude" -> lon
         [] c = "eventDate" -> date
         [] c = "country" -> "Brazil"
         [] c = "basisOfRecord" -> "HUMAN_OBSERVATION"
         [] c = "institutionCode" -> "iNaturalist"
         [] c = "identificationID" -> "id"
         [] c = "identifiedBy" -> "observer"]

\* a record of the source that carries no such key
Without(record, col) == [c \in (DOMAIN record) \ {col} |-> record[c]]

RawRecords ==
    { Occurrence(1, "Panthera onca", Float(FALSE, 12345, 3), Float(TRUE, 45678, 3),
                 IsoDate(2020, 6, 15, 0, FALSE)),
      \* the same occurrence under another key
      Occurrence(2, "Panthera onca", Float(FALSE, 12345, 3), Float(TRUE, 45678, 3),
                 IsoDate(2020, 6, 15, 0, FALSE)),
      \* latitude 1.2347e-05, on the last day of the range
      Occurrence(3, "Puma concolor", Float(FALSE, 12347, 9), Float(FALSE, 1205678, 4),
                 IsoDate(2020, 12, 31, 0, FALSE)),
      \* latitude 12.3
      Occurrence(4, "Panthera onca", Float(FALSE, 123, 1), Float(TRUE, 45678, 3),
                 IsoDate(2020, 6, 15, 0, FALSE)),
      \* a date range, which is no date, in a record without the identifiedBy key
      Without(Occurrence(5, "Puma concolor", Float(TRUE, 512345678, 8),
                         Float(FALSE, 1205678, 4), DateText("text", 0, 0, 0, 0, FALSE)),
              "identifiedBy") }

\* what one reverse-geocode call may do: a location, None, GeocoderTimedOut,
\* or another geopy exception
GeocoderOutcomes == {"location", "none", "timeout", "error"}

\* what the backbone may answer for a name: a match of some type with the
\* usage key of the taxon, or no match; "incertae sedis" is the backbone's
\* taxon with usage key 0
BackboneAnswers(name) ==
    IF name = "incertae sedis"
      THEN { [matchType |-> "EXACT", usageKey |-> 0], [matchType |-> "NONE"] }
      ELSE { [matchType |-> "EXACT", usageKey |-> 5219426],
             [matchType |-> "FUZZY", usageKey |-> 5219426],
             [matchType |-> "NONE"] }

SpeciesNames == { <<"P", " ", "o">> }

MaxRecords == 3

MaxLimit == 2

(***************************************************************************)
(* curate_data as a state machine                                          *)
(***************************************************************************)
VARIABLES
    pc,                 \* the statement curate_data is at
    species_name, min_date, max_date, limit_per_request,   \* its arguments
    offset, all_records,                    \* fetch_all_gbif_data's locals
    remaining,          \* how many more records the source may still return
    requests, responses,                    \* the source's view: offsets asked, pages sent
    raw_data, gbif_url, cleaned_data,
    validated_data, initial_count, coord_valid_count, date_valid_count,
    geo_i, valid_geolocation, geocode_log,  \* validate_georeferencing's loop
    validated_georeferencing_data,
    names, name_i, valid_species, backbone_log,   \* taxonomic_validation's loop
    taxonomically_validated_data, valid_species_count,
    enriched_data,
    files,              \* the files written, in the order of writing
    error,              \* the uncaught exception that ended the run
    recleaned           \* initial_cleaning applied to its own output

\* vsSHP_BUFFER.py: main's position, the two files it is given, and its locals
VARIABLES step, csv_file, shp_file, df, shp, validated_gdf, output

shpVars == <<step, csv_file, shp_file, df, shp, validated_gdf, output>>

argVars == <<species_name, min_date, max_date, limit_per_request>>

fetchVars == <<offset, all_records, remaining, requests, responses, raw_data, gbif_url>>

validateVars == <<validated_data, initial_count, coord_valid_count, date_valid_count>>

geoVars == <<geo_i, valid_geolocation, geocode_log, validated_georeferencing_data>>

taxoVars == <<names, name_i, valid_species, backbone_log, valid_species_count>>

vars == <<shpVars, pc, argVars, fetchVars, cleaned_data, validateVars, geoVars, taxoVars,
          taxonomically_validated_data, enriched_data, files, error, recleaned>>

NoError == [at |-> "", kind |-> ""]

Min(a, b) == IF a < b THEN a ELSE b

\* the boundary checker's locals before load_data
Unloaded ==
    /\ df = <<>>
    /\ shp = [crs |-> "None", geometry |-> <<>>]
    /\ validated_gdf = [crs |-> "None", rows |-> <<>>]
    /\ output = [file |-> <<>>, within |-> 0, not_within |-> 0]

\* the boundary checker is not run
NoBoundaryCheck ==
    /\ step = "idle"
    /\ csv_file = <<>>
    /\ shp_file = [crs |-> "None", geometry |-> <<>>]
    /\ Unloaded

\* the locals of a run that is at statement p and has computed nothing
Start(p) ==
    /\ pc = p
    /\ offset = 0
    /\ all_records = <<>>
    /\ requests = <<>>
    /\ responses = <<>>
    /\ gbif_url = <<>>
    /\ validated_data = EmptyFrame
    /\ initial_count = 0
    /\ coord_valid_count = 0
    /\ date_valid_count = 0
    /\ geo_i = 1
    /\ valid_geolocation = <<>>
    /\ geocode_log = <<>>
    /\ names = <<>>
    /\ name_i = 1
    /\ valid_species = <<>>
    /\ backbone_log = <<>>
    /\ taxonomically_validated_data = EmptyFrame
    /\ valid_species_count = 0
    /\ enriched_data = EmptyFrame
    /\ files = <<>>
    /\ error = NoError
    /\ recleaned = EmptyFrame

\* main: min_date = datetime(min_year, 1, 1), max_date = datetime(max_year, 12, 31)
Init ==
    /\ Start("fetch")
    /\ NoBoundaryCheck
    /\ species_name \in SpeciesNames
    /\ min_date = datetime(2020, 1, 1)
    /\ max_date = datetime(2020, 12, 31)
    /\ limit_per_request \in 1..MaxLimit
    /\ remaining = MaxRecords
    /\ raw_data = EmptyFrame
    /\ cleaned_data = EmptyFrame
    /\ validated_georeferencing_data = EmptyFrame

\* a curate_data that saves the raw data only after cleaning it
SavingRawLate(statement) ==
    CASE statement = "fetch" -> "clean"
      [] statement = "clean" -> "save_raw"
      [] statement = "save_raw" -> "validate"
      [] statement = "validate" -> "georef"
      [] statement = "georef" -> "taxo"
      [] statement = "taxo" -> "taxo_loop"
      [] statement = "taxo_loop" -> "enrich"
      [] statement = "enrich" -> "save_curated"
      [] statement = "save_curated" -> "report"
      [] statement = "report" -> "done"

\* the statement of curate_data that follows a statement
Successor(statement) ==
    CASE statement = "fetch" -> "save_raw"
      [] statement = "save_raw" -> "clean"
      [] statement = "clean" -> "validate"
      [] statement = "validate" -> "georef"
      [] statement = "georef" -> "taxo"
      [] statement = "taxo" -> "taxo_loop"
      [] statement = "taxo_loop" -> "enrich"
      [] statement = "enrich" -> "save_curated"
      [] statement = "save_curated" -> "report"
      [] statement = "report" -> "done"

Raise(at, kind) == pc' = "error" /\ error' = [at |-> at, kind |-> kind]

\* a fetch loop that steps by one record instead of one page
next_offset_by_one(off, limit) == off + 1

\* offset += limit_per_request
next_offset(off, limit) == off + limit

\* one pass of the while loop of fetch_all_gbif_data: a request and its answer
Search ==
    /\ pc = "fetch"
    /\ \E records \in SeqsUpTo(RawRecords, Min(limit_per_request, remaining)) :
         /\ requests' = Append(requests, offset)
         /\ responses' = Append(responses, records)
         /\ remaining' = remaining - Len(records)
         /\ IF records = <<>>
              THEN /\ raw_data' = DataFrame(all_records)
                   /\ gbif_url' = SearchUrl(species_name)
                   /\ pc' = Successor(pc)
                   /\ UNCHANGED <<all_records, offset>>
              ELSE /\ all_records' = all_records \o records
                   /\ offset' = next_offset(offset, limit_per_request)
                   /\ UNCHANGED <<pc, raw_data, gbif_url>>
    /\ UNCHANGED <<shpVars, argVars, cleaned_data, validateVars, geoVars, taxoVars,
                   taxonomically_validated_data, enriched_data, files, error,
                   recleaned>>

\* a request that fails: the exception is not caught
SearchFails ==
    /\ pc = "fetch"
    /\ requests' = Append(requests, offset)
    /\ Raise("fetch_all_gbif_data", "RequestError")
    /\ UNCHANGED <<shpVars, argVars, offset, all_records, remaining, responses, raw_data,
                   gbif_url, cleaned_data, validateVars, geoVars, taxoVars,
                   taxonomically_validated_data, enriched_data, files, recleaned>>

SaveRaw ==
    /\ pc = "save_raw"
    /\ files' = Append(files, [name |-> FileName(species_name, "_gbif_raw_data.csv"),
                               content |-> to_csv(raw_data)])
    /\ pc' = Successor(pc)
    /\ UNCHANGED <<shpVars, argVars, fetchVars, cleaned_data, validateVars, geoVars, taxoVars,
                   taxonomically_validated_data, enriched_data, error, recleaned>>

\* initial_cleaning; df[columns] raises KeyError when a column is missing
Clean ==
    /\ pc = "clean"
    /\ IF HasColumns(raw_data, columns)
         THEN /\ cleaned_data' = initial_cleaning(raw_data)
              /\ pc' = Successor(pc)
              /\ UNCHANGED error
         ELSE /\ Raise("initial_cleaning", "KeyError")
              /\ UNCHANGED cleaned_data
    /\ UNCHANGED <<shpVars, argVars, fetchVars, validateVars, geoVars, taxoVars,
                   taxonomically_validated_data, enriched_data, files, recleaned>>

Validate ==
    /\ pc = "validate"
    /\ LET r == validate_data(cleaned_data, min_date, max_date)
       IN  /\ validated_data' = r.df
           /\ initial_count' = r.initial_count
           /\ coord_valid_count' = r.coord_valid_count
           /\ date_valid_count' = r.date_valid_count
    /\ pc' = Successor(pc)
    /\ UNCHANGED <<shpVars, argVars, fetchVars, cleaned_data, geoVars, taxoVars,
                   taxonomically_validated_data, enriched_data, files, error,
                   recleaned>>

\* a loop that puts each kept row in front of the earlier ones
insert_first(list, row) == <<row>> \o list

\* valid_geolocation.append(row)
append(list, row) == Append(list, row)

\* geocode_point, given what the reverse call did
geocode_point(outcome) == outcome = "location"

\* one pass of the loop of validate_georeferencing
GeocodeRow ==
    /\ pc = "georef"
    /\ geo_i <= len(validated_data)
    /\ \E outcome \in GeocoderOutcomes :
         /\ geocode_log' = Append(geocode_log,
                                  [idx |-> validated_data.rows[geo_i].idx,
                                   outcome |-> outcome])
         /\ IF outcome = "error"
              THEN /\ Raise("validate_georeferencing", "GeocoderServiceError")
                   /\ UNCHANGED <<geo_i, valid_geolocation>>
              ELSE /\ valid_geolocation' =
                        IF geocode_point(outcome)
                          THEN append(valid_geolocation, validated_data.rows[geo_i])
                          ELSE valid_geolocation
                   /\ geo_i' = geo_i + 1
                   /\ UNCHANGED <<pc, error>>
    /\ UNCHANGED <<shpVars, argVars, fetchVars, cleaned_data, validateVars,
                   validated_georeferencing_data, taxoVars,
                   taxonomically_validated_data, enriched_data, files, recleaned>>

\* return pd.DataFrame(valid_geolocation)
GeorefReturn ==
    /\ pc = "georef"
    /\ geo_i > len(validated_data)
    /\ validated_georeferencing_data' =
         FrameOfRows(valid_geolocation, validated_data.columns)
    /\ pc' = Successor(pc)
    /\ UNCHANGED <<shpVars, argVars, fetchVars, cleaned_data, validateVars, geo_i,
                   valid_geolocation, geocode_log, taxoVars,
                   taxonomically_validated_data, enriched_data, files, error,
                   recleaned>>

\* df['species'].unique(); KeyError when the frame has no such column
TaxonomicStart ==
    /\ pc = "taxo"
    /\ IF HasColumns(validated_georeferencing_data, <<"species">>)
         THEN /\ names' = unique(Column(validated_georeferencing_data, "species"))
              /\ pc' = Successor(pc)
              /\ UNCHANGED error
         ELSE /\ Raise("taxonomic_validation", "KeyError")
              /\ UNCHANGED names
    /\ UNCHANGED <<shpVars, argVars, fetchVars, cleaned_data, validateVars, geoVars, name_i,
                   valid_species, backbone_log, valid_species_count,
                   taxonomically_validated_data, enriched_data, files, recleaned>>

\* one pass of the loop of taxonomic_validation
BackboneLookup ==
    /\ pc = "taxo_loop"
    /\ name_i <= Len(names)
    /\ \E match \in BackboneAnswers(names[name_i]) :
         /\ backbone_log' = Append(backbone_log,
                                   [name |-> names[name_i], match |-> match])
         /\ valid_species' =
              IF Truthy(validate_taxonomic_name(match))
                THEN Append(valid_species, names[name_i])
                ELSE valid_species
    /\ name_i' = name_i + 1
    /\ UNCHANGED <<shpVars, pc, argVars, fetchVars, cleaned_data, validateVars, geoVars, names,
                   valid_species_count, taxonomically_validated_data, enriched_data,
                   files, error, recleaned>>

\* a backbone lookup that fails: the exception is not caught
BackboneFails ==
    /\ pc = "taxo_loop"
    /\ name_i <= Len(names)
    /\ Raise("taxonomic_validation", "RequestError")
    /\ UNCHANGED <<shpVars, argVars, fetchVars, cleaned_data, validateVars, geoVars, taxoVars,
                   taxonomically_validated_data, enriched_data, files, recleaned>>

TaxonomicReturn ==
    /\ pc = "taxo_loop"
    /\ name_i > Len(names)
    /\ taxonomically_validated_data' =
         isin_filter(validated_georeferencing_data, valid_species)
    /\ valid_species_count' = Len(valid_species)
    /\ pc' = Successor(pc)
    /\ UNCHANGED <<shpVars, argVars, fetchVars, cleaned_data, validateVars, geoVars, names,
                   name_i, valid_species, backbone_log, enriched_data, files, error,
                   recleaned>>

\* enrich_data writes the column into the frame it is given and returns that frame
Enrich ==
    /\ pc = "enrich"
    /\ enriched_data' = enrich_data(taxonomically_validated_data)
    /\ taxonomically_validated_data' = enrich_data(taxonomically_validated_data)
    /\ pc' = Successor(pc)
    /\ UNCHANGED <<shpVars, argVars, fetchVars, cleaned_data, validateVars, geoVars, taxoVars,
                   files, error, recleaned>>

SaveCurated ==
    /\ pc = "save_curated"
    /\ files' = Append(files,
                       [name |-> FileName(species_name, "_gbif_curated_data.csv"),
                        content |-> to_csv(enriched_data)])
    /\ pc' = Successor(pc)
    /\ UNCHANGED <<shpVars, argVars, fetchVars, cleaned_data, validateVars, geoVars, taxoVars,
                   taxonomically_validated_data, enriched_data, error, recleaned>>

WriteReport ==
    /\ pc = "report"
    /\ files' = Append(files,
                       [name |-> FileName(species_name, "_gbif_report.txt"),
                        content |->
                          ReportText(species_name, gbif_url, initial_count,
                                     coord_valid_count, date_valid_count,
                                     len(validated_georeferencing_data),
                                     valid_species_count, len(enriched_data))])
    /\ pc' = Successor(pc)
    /\ UNCHANGED <<shpVars, argVars, fetchVars, cleaned_data, validateVars, geoVars, taxoVars,
                   taxonomically_validated_data, enriched_data, error, recleaned>>

Next ==
    \/ Search \/ SearchFails \/ SaveRaw \/ Clean \/ Validate
    \/ GeocodeRow \/ GeorefReturn
    \/ TaxonomicStart \/ BackboneLookup \/ BackboneFails \/ TaxonomicReturn
    \/ Enrich \/ SaveCurated \/ WriteReport

Spec == Init /\ [][Next]_vars
(***************************************************************************)
(* Properties of the run of curate_data                                    *)
(***************************************************************************)
RECURSIVE Concat(_)
Concat(pages) == IF pages = <<>> THEN <<>> ELSE Head(pages) \o Concat(Tail(pages))

\* fetch_all_gbif_data has returned
Fetched == pc # "fetch" /\ error.at # "fetch_all_gbif_data"

\* C1: the requests go out at offsets 0, p, 2p, ... in that order; no page but
\* the last is empty and no request follows the empty page; once the fetch has
\* returned, k non-empty pages were followed by one empty page (k+1 requests)
\* and the dataset is the k pages' records in request order.
C1_Pagination ==
    /\ \A i \in 1..Len(requests) : requests[i] = (i - 1) * limit_per_request
    /\ \A i \in 1..Len(responses) :
         responses[i] = <<>> => (i = Len(responses) /\ pc # "fetch")
    /\ Fetched =>
         LET got == Concat(responses)
         IN  /\ Len(requests) = Len(responses)
             /\ responses[Len(responses)] = <<>>
             /\ Len(requests) =
                  Cardinality({i \in 1..Len(responses) : responses[i] # <<>>}) + 1
             /\ len(raw_data) = Len(got)
             /\ \A i \in 1..Len(got) :
                  /\ raw_data.rows[i].idx = i - 1
                  /\ \A c \in DOMAIN got[i] : raw_data.rows[i].cells[c] = got[i][c]

\* a fetch of a page of two and a page of one, then the empty page: 3 requests
C1_Witness ==
    /\ pc = "done"
    /\ limit_per_request = 2
    /\ requests = <<0, 2, 4>>
    /\ Len(responses[1]) = 2 /\ Len(responses[2]) = 1 /\ responses[3] = <<>>
    /\ responses[1][1] # responses[1][2] /\ responses[1][2] # responses[2][1]
    /\ len(raw_data) = 3

\* the kind of each file written so far, in the order of writing
Written == [i \in 1..Len(files) |-> files[i].name[Len(files[i].name)]]

RawFile == "_gbif_raw_data.csv"

CuratedFile == "_gbif_curated_data.csv"

ReportFile == "_gbif_report.txt"

\* the lines' labels in the order of the report
ReportLabels ==
    <<"Species", "GBIF Data URL", "Total records fetched",
      "Records after coordinate validation", "Records after date validation",
      "Records after georeferencing validation", "Valid species names found",
      "Total curated records">>

\* C4: the report holds the eight labelled lines in order; 'Total records
\* fetched' is the raw dataset's row count (the rows of the raw file) and each
\* later number is the row count of that stage's output (for the names, the
\* number of distinct valid names).
C4_ReportCounts ==
    pc = "done" =>
      LET text == files[3].content
      IN  /\ [i \in 1..Len(text) |-> text[i][1]] = ReportLabels
          /\ text[1][2] = species_name
          /\ text[2][2] = gbif_url
          /\ text[3][2] = len(raw_data)
          /\ text[3][2] = Len(files[1].content.rows)
          /\ text[4][2] = Cardinality({i \in 1..len(cleaned_data) :
                                         CoordMask(cleaned_data.rows[i].cells)})
          /\ text[5][2] = len(validated_data)
          /\ text[6][2] = len(validated_georeferencing_data)
          /\ text[7][2] = Cardinality(Range(valid_species))
          /\ text[8][2] = len(enriched_data)

\* the lookup outcome logged for the row labelled idx
OutcomeOf(idx) ==
    LET i == CHOOSE j \in 1..Len(geocode_log) : geocode_log[j].idx = idx
    IN  geocode_log[i].outcome

GeorefReturned == pc \in {"taxo", "taxo_loop", "enrich", "save_curated", "report", "done"}
                    \/ (pc = "error" /\ error.at = "taxonomic_validation")

\* C5: validate_georeferencing keeps exactly the rows whose lookup returned a
\* location, and lookups that time out or return nothing never end the run:
\* whatever rows they drop (all of them included), only a failed service call
\* can stop the run after that stage.
C5_TimeoutNeverFatal ==
    /\ GeorefReturned =>
         validated_georeferencing_data.rows =
           Masked(validated_data.rows,
                  [i \in 1..len(validated_data) |->
                     OutcomeOf(validated_data.rows[i].idx) = "location"])
    /\ (pc = "error" /\ error.at \in {"validate_georeferencing", "taxonomic_validation"})
         => error.kind \in {"RequestError", "GeocoderServiceError"}

\* C10: nothing is written before the fetch has returned; the raw file is
\* written before any filtering stage has run; the curated file only after all
\* stages; the report last. A run that dies in the fetch leaves no file, a run
\* that dies in a later stage leaves exactly the raw file.
C10_FileOrder ==
    /\ pc \in {"fetch", "save_raw"} => Written = <<>>
    /\ pc \in {"clean", "validate", "georef", "taxo", "taxo_loop", "enrich",
               "save_curated"} => Written = <<RawFile>>
    /\ pc = "report" => Written = <<RawFile, CuratedFile>>
    /\ pc = "done" => Written = <<RawFile, CuratedFile, ReportFile>>
    /\ pc = "error" =>
         Written = IF error.at = "fetch_all_gbif_data" THEN <<>> ELSE <<RawFile>>
    /\ Written = <<>> =>
         /\ cleaned_data = EmptyFrame
         /\ validated_data = EmptyFrame
         /\ geocode_log = <<>>
         /\ backbone_log = <<>>
    /\ Len(files) >= 1 => files[1].content = to_csv(raw_data)
    /\ Len(files) >= 2 => files[2].content = to_csv(enriched_data)

\* zero records fetched: the raw file is written, then the Cleaner dies
C10_Witness ==
    /\ pc = "error"
    /\ error = [at |-> "initial_cleaning", kind |-> "KeyError"]
    /\ len(raw_data) = 0
    /\ Written = <<RawFile>>
\* a row's cells on the nine fixed columns
Fixed(cells) == [c \in Range(columns) |-> cells[c]]

FixedRows(frame) == [i \in 1..len(frame) |-> Fixed(frame.rows[i].cells)]

Labels(frame) == [i \in 1..len(frame) |-> frame.rows[i].idx]

\* a is b with some elements left out
RECURSIVE IsSubseq(_, _)
IsSubseq(a, b) ==
    IF a = <<>> THEN TRUE
    ELSE IF b = <<>> THEN FALSE
    ELSE IF Head(a) = Head(b) THEN IsSubseq(Tail(a), Tail(b))
    ELSE IsSubseq(a, Tail(b))

\* the stages' outputs in the order of the run, the raw dataset projected
StageOutputs ==
    << IF HasColumns(raw_data, columns) THEN Select(raw_data, columns) ELSE EmptyFrame,
       cleaned_data, validated_data, validated_georeferencing_data,
       taxonomically_validated_data, enriched_data >>

Enriched == pc \in {"save_curated", "report", "done"}

CountsNeverGrow ==
    /\ len(cleaned_data) <= len(raw_data)
    /\ len(validated_data) <= len(cleaned_data)
    /\ len(validated_georeferencing_data) <= len(validated_data)
    /\ len(taxonomically_validated_data) <= len(validated_georeferencing_data)
    /\ Enriched => len(enriched_data) = len(taxonomically_validated_data)

\* C7 as stated: every row of a stage's output is, by value on the fixed
\* columns, a row of the previous stage's output, in the same relative order;
\* the row counts never grow and the Enricher keeps the count.
C7_RowsOfPreviousStage ==
    /\ \A n \in 1..(Len(StageOutputs) - 1) :
         Enriched \/ n < 5 =>
           IsSubseq(FixedRows(StageOutputs[n + 1]), FixedRows(StageOutputs[n]))
    /\ CountsNeverGrow

\* a row with eventDate parsed and the coordinates rounded to 8 places, as
\* the Validator writes them into the rows it keeps
Rewritten(cells) ==
    [cells EXCEPT !["eventDate"] = to_datetime(@),
                  !["decimalLatitude"] = round(@, 8),
                  !["decimalLongitude"] = round(@, 8)]

\* every row of out carries the label of a row of prev, in prev's order, and
\* holds that row's fixed columns, rewritten or as they were
StemsFrom(out, prev, rewritten) ==
    /\ IsSubseq(Labels(out), Labels(prev))
    /\ \A i, j \in 1..len(out) : i # j => out.rows[i].idx # out.rows[j].idx
    /\ \A i \in 1..len(out) :
         \E j \in 1..len(prev) :
           /\ prev.rows[j].idx = out.rows[i].idx
           /\ Fixed(out.rows[i].cells)
                = Fixed(IF rewritten THEN Rewritten(prev.rows[j].cells)
                                     ELSE prev.rows[j].cells)

\* C7, with the Validator's rewriting of its rows taken into account: no
\* stage invents or reorders rows: every row of a stage's output stems from
\* the row of the previous stage's output with the same index label, in the
\* same relative order, and equals it on the fixed columns, except that the
\* Validator's rows hold eventDate as the parsed timestamp and the
\* coordinates rounded to 8 places; the row counts never grow and the
\* Enricher keeps the count.
C7_RowsStemFromPreviousStage ==
    LET outputs == StageOutputs
    IN  /\ \A n \in 1..(Len(outputs) - 1) :
             Enriched \/ n < 5 =>
               StemsFrom(outputs[n + 1], outputs[n], n = 2)
        /\ CountsNeverGrow

\* a run to the end in which a duplicate was dropped, two rows went through
\* every stage and one of them had its latitude rounded
C7_Witness ==
    /\ pc = "done"
    /\ len(raw_data) = 3
    /\ len(cleaned_data) = 2
    /\ len(enriched_data) = 2
    /\ \E i \in 1..2 : validated_data.rows[i].cells["decimalLatitude"]
                         # cleaned_data.rows[i].cells["decimalLatitude"]
(***************************************************************************)
(* validate_data on its own: any cleaned dataset, any pair of years        *)
(***************************************************************************)
GoodLat == Float(FALSE, 12345, 3)

GoodLon == Float(TRUE, 45678, 3)

GoodDate == IsoDate(2020, 6, 15, 0, FALSE)

LatCases ==
    { Float(FALSE, 123, 1),          \* 12.3
      Float(FALSE, 12, 0),           \* 12.0
      Float(FALSE, 2123456789, 9),   \* 2.123456789
      Float(FALSE, 1212345678, 8),   \* 12.12345678
      Float(FALSE, 90, 0),           \* 90.0
      Float(FALSE, 90001, 3),        \* 90.001
      Float(TRUE, 90001, 3),         \* -90.001
      Float(TRUE, 89999, 3),         \* -89.999
      Float(FALSE, 1234, 7),         \* 0.0001234
      Float(FALSE, 1, 5),            \* 1e-05
      Float(FALSE, 15, 6),           \* 1.5e-05
      Float(FALSE, 123456, 10),      \* 1.23456e-05
      NaN }

LonCases ==
    { Float(FALSE, 180001, 3),       \* 180.001
      Float(TRUE, 180, 0),           \* -180.0
      Float(FALSE, 179999, 3),       \* 179.999
      Float(FALSE, 91123, 3),        \* 91.123
      Float(FALSE, 1205, 1) }        \* 120.5

DateCases ==
    { IsoDate(2020, 12, 31, 0, FALSE),   \* midnight of Dec 31
      IsoDate(2020, 12, 31, 10, FALSE),  \* later that day
      IsoDate(2020, 1, 1, 0, FALSE),
      IsoDate(2019, 12, 31, 23, FALSE),
      IsoDate(2020, 2, 29, 0, FALSE),
      IsoDate(2020, 2, 30, 0, FALSE),    \* no such day
      IsoDate(2020, 6, 15, 10, TRUE),    \* with a UTC designator
      DateText("text", 0, 0, 0, 0, FALSE),
      DateText("nan", 0, 0, 0, 0, FALSE) }

ValidatorRecords ==
    {Occurrence(1, "Panthera onca", lat, GoodLon, GoodDate) : lat \in LatCases \cup {GoodLat}}
      \cup {Occurrence(1, "Panthera onca", GoodLat, lon, GoodDate) : lon \in LonCases}
      \cup {Occurrence(1, "Panthera onca", GoodLat, GoodLon, date) : date \in DateCases}
      \cup {Occurrence(1, "Panthera onca", Float(FALSE, 123, 1), Float(FALSE, 1205, 1),
                       DateText("text", 0, 0, 0, 0, FALSE))}

Years == {2019, 2020}

MaxRowsV == 2

InitValidator ==
    /\ Start("validate")
    /\ NoBoundaryCheck
    /\ species_name \in SpeciesNames
    /\ \E min_year, max_year \in Years :
         /\ min_date = datetime(min_year, 1, 1)
         /\ max_date = datetime(max_year, 12, 31)
    /\ limit_per_request = 1
    /\ remaining = 0
    /\ raw_data = EmptyFrame
    /\ cleaned_data \in {Select(DataFrame(recs), columns) :
                           recs \in SeqsUpTo(ValidatorRecords, MaxRowsV) \ {<<>>}}
    /\ validated_georeferencing_data = EmptyFrame

SpecValidator == InitValidator /\ [][Validate]_vars

\* the digits that follow the decimal separator in a text
DigitsAfterSeparator(text) ==
    LET dots == {i \in 1..Len(text) : text[i] = "."}
    IN  IF dots = {} THEN 0
        ELSE LET first == CHOOSE i \in dots : \A j \in dots : i <= j
             IN  Cardinality({i \in (first + 1)..Len(text) :
                                text[i] \in Range(Digits(123456789)) \cup {"0"}})

\* the conditions of C2 for one row
KeptBySpec(cells, lo, hi) ==
    /\ between(cells["decimalLatitude"], -90, 90)
    /\ between(cells["decimalLongitude"], -180, 180)
    /\ DigitsAfterSeparator(str(cells["decimalLatitude"])) \in 3..8
    /\ DigitsAfterSeparator(str(cells["decimalLongitude"])) \in 3..8
    /\ LET d == to_datetime(cells["eventDate"])
       IN  d.kind = "Timestamp" /\ Instant(lo) <= Instant(d) /\ Instant(d) <= Instant(hi)

Validated == pc = "georef"

\* C2: validate_data keeps a row iff its latitude and longitude are in range,
\* each has 3 to 8 digits after the decimal separator of its textual form, and
\* its eventDate parses to a date within [min_date, max_date].
C2_KeptIff ==
    Validated =>
      Labels(validated_data) =
        Labels(Filter(cleaned_data,
                      [i \in 1..len(cleaned_data) |->
                         KeptBySpec(cleaned_data.rows[i].cells, min_date, max_date)]))

\* C3: the three counts are the rows given, the rows that pass the coordinate
\* range and precision tests whatever their eventDate, and the rows that pass
\* those and the date test, which is the row count of the result;
\* first >= second >= third.
C3_Counts ==
    Validated =>
      LET given == 1..len(cleaned_data)
          coord == {i \in given : CoordMask(cleaned_data.rows[i].cells)}
          dated == {i \in coord :
                      is_valid_date(cleaned_data.rows[i].cells["eventDate"],
                                    min_date, max_date).kind = "Timestamp"}
      IN  /\ initial_count = Cardinality(given)
          /\ coord_valid_count = Cardinality(coord)
          /\ date_valid_count = Cardinality(dated)
          /\ date_valid_count = len(validated_data)
          /\ initial_count >= coord_valid_count
          /\ coord_valid_count >= date_valid_count

\* two rows given, one passes the coordinate tests, none the date test
C3_Witness ==
    /\ Validated
    /\ initial_count = 2
    /\ coord_valid_count = 1
    /\ date_valid_count = 0
(***************************************************************************)
(* initial_cleaning on its own, and applied to its own output              *)
(***************************************************************************)
MaxRowsC == 3

InitCleaner ==
    /\ Start("clean")
    /\ NoBoundaryCheck
    /\ species_name \in SpeciesNames
    /\ min_date = datetime(2020, 1, 1)
    /\ max_date = datetime(2020, 12, 31)
    /\ limit_per_request = 1
    /\ remaining = 0
    /\ raw_data \in {DataFrame(recs) : recs \in SeqsUpTo(RawRecords, MaxRowsC)}
    /\ cleaned_data = EmptyFrame
    /\ validated_georeferencing_data = EmptyFrame

\* the Cleaner run again on what it returned
CleanAgain ==
    /\ pc = "validate"
    /\ recleaned' = initial_cleaning(cleaned_data)
    /\ pc' = "cleaned_twice"
    /\ UNCHANGED <<shpVars, argVars, fetchVars, cleaned_data, validateVars, geoVars, taxoVars,
                   taxonomically_validated_data, enriched_data, files, error>>

NextCleaner == Clean \/ CleanAgain

SpecCleaner == InitCleaner /\ [][NextCleaner]_vars

\* C8: the Cleaner's output has exactly the nine fixed columns in the fixed
\* order; its rows are the input's rows on those columns, each row that equals
\* an earlier one left out and first-seen order kept; no two of its rows are
\* identical; the Cleaner applied to its own output changes nothing.
C8_Cleaner ==
    pc \in {"validate", "cleaned_twice"} =>
      LET nine  == <<"species", "decimalLatitude", "decimalLongitude", "country",
                     "eventDate", "basisOfRecord", "institutionCode",
                     "identificationID", "identifiedBy">>
          proj  == [i \in 1..len(raw_data) |->
                      [c \in Range(nine) |-> raw_data.rows[i].cells[c]]]
          first == {i \in 1..len(raw_data) : \A j \in 1..(i - 1) : proj[j] # proj[i]}
      IN  /\ cleaned_data.columns = nine
          /\ Labels(cleaned_data) =
               Masked(Labels(raw_data), [i \in 1..len(raw_data) |-> i \in first])
          /\ \A k \in 1..len(cleaned_data) :
               cleaned_data.rows[k].cells = proj[cleaned_data.rows[k].idx + 1]
          /\ \A k, l \in 1..len(cleaned_data) :
               k # l => cleaned_data.rows[k].cells # cleaned_data.rows[l].cells
          /\ pc = "cleaned_twice" => recleaned = cleaned_data

\* three records, the third a copy of the first under another key: two rows
\* are left, and cleaning them again leaves the same two
C8_Witness ==
    /\ pc = "cleaned_twice"
    /\ len(raw_data) = 3
    /\ raw_data.rows[1].cells # raw_data.rows[3].cells
    /\ Labels(cleaned_data) = <<0, 1>>
    /\ recleaned = cleaned_data

(***************************************************************************)
(* taxonomic_validation on its own                                         *)
(***************************************************************************)
TaxonRecords ==
    {Occurrence(1, name, lat, GoodLon, GoodDate) :
       name \in {"Panthera onca", "Puma concolor", "incertae sedis"},
       lat \in {GoodLat, Float(TRUE, 89999, 3)}}

MaxRowsT == 3

InitTaxonomic ==
    /\ Start("taxo")
    /\ NoBoundaryCheck
    /\ species_name \in SpeciesNames
    /\ min_date = datetime(2020, 1, 1)
    /\ max_date = datetime(2020, 12, 31)
    /\ limit_per_request = 1
    /\ remaining = 0
    /\ raw_data = EmptyFrame
    /\ cleaned_data = EmptyFrame
    /\ validated_georeferencing_data \in
         {FrameOfRows(Select(DataFrame(recs), columns).rows, columns) :
            recs \in SeqsUpTo(TaxonRecords, MaxRowsT)}

NextTaxonomic == TaxonomicStart \/ BackboneLookup \/ BackboneFails \/ TaxonomicReturn

SpecTaxonomic == InitTaxonomic /\ [][NextTaxonomic]_vars

\* the position at which a species name first occurs in the input
FirstSeen(name) ==
    CHOOSE i \in 1..len(validated_georeferencing_data) :
      /\ validated_georeferencing_data.rows[i].cells["species"] = name
      /\ \A j \in 1..(i - 1) :
           validated_georeferencing_data.rows[j].cells["species"] # name

\* C6: one backbone lookup per distinct species name of the input, in
\* first-seen order; a name is valid iff its match type is not 'NONE'; the
\* result is the input rows of valid names, order and content unchanged, with
\* the number of distinct valid names.
C6_TaxonomicValidation ==
    LET input  == validated_georeferencing_data
        asked  == [i \in 1..Len(backbone_log) |-> backbone_log[i].name]
        needed == {input.rows[i].cells["species"] : i \in 1..len(input)}
        valid  == {backbone_log[i].name : i \in
                     {j \in 1..Len(backbone_log) :
                        backbone_log[j].match["matchType"] # "NONE"}}
    IN  /\ Range(asked) \subseteq needed
        /\ \A i, j \in 1..Len(asked) :
             i < j => FirstSeen(asked[i]) < FirstSeen(asked[j])
        /\ pc = "enrich" =>
             /\ Range(asked) = needed
             /\ taxonomically_validated_data =
                  Filter(input, [i \in 1..len(input) |->
                                   input.rows[i].cells["species"] \in valid])
             /\ valid_species_count = Cardinality(valid)
(***************************************************************************)
(* vsSHP_BUFFER.py: the boundary checker                                   *)
(***************************************************************************)
\* a boundary polygon: the rectangle with corners (minx, miny) and (maxx, maxy)
Box(minx, miny, maxx, maxy) ==
    [minx |-> minx, miny |-> miny, maxx |-> maxx, maxy |-> maxy]

\* Point(x, y)
Point(x, y) == [x |-> x, y |-> y]

\* polygon.contains(point): the point lies in the polygon's interior
contains(polygon, point) ==
    /\ point.x.kind = "float" /\ point.y.kind = "float"
    /\ ~LeInt(point.x, polygon.minx) /\ ~GeInt(point.x, polygon.maxx)
    /\ ~LeInt(point.y, polygon.miny) /\ ~GeInt(point.y, polygon.maxy)

\* a test that asks for every polygon
all(flags) == \A i \in 1..Len(flags) : flags[i]

\* Python's any
any(flags) == \E i \in 1..Len(flags) : flags[i]

\* gpd.points_from_xy(df['decimalLongitude'], df['decimalLatitude'])
points_from_xy(xs, ys) == [i \in 1..Len(xs) |-> Point(xs[i], ys[i])]

validate_points_within_shapefile(points, boundary) ==
    LET geometry == points_from_xy([i \in 1..Len(points) |-> points[i]["decimalLongitude"]],
                                   [i \in 1..Len(points) |-> points[i]["decimalLatitude"]])
        \* the points carry no CRS; set_crs with allow_override moves no point
        crs == IF "None" # boundary.crs THEN boundary.crs ELSE "None"
    IN  [crs |-> crs,
         rows |-> [i \in 1..Len(points) |->
                     [cells |-> points[i],
                      geometry |-> geometry[i],
                      within_shapefile |->
                        any([k \in 1..Len(boundary.geometry) |->
                               contains(boundary.geometry[k], geometry[i])])]]]

\* the rows of a curated file
CuratedRows ==
    { [species |-> "Panthera onca", decimalLongitude |-> lonlat[1],
       decimalLatitude |-> lonlat[2], dataSource |-> "GBIF"] :
        lonlat \in { <<Float(TRUE, 45678, 3), Float(FALSE, 12345, 3)>>,
                     <<Float(FALSE, 12345, 3), Float(TRUE, 45678, 3)>>,
                     <<Float(FALSE, 1205678, 4), Float(FALSE, 1235, 8)>>,
                     <<Float(TRUE, 45, 0), Float(FALSE, 12345, 3)>>,
                     <<Float(FALSE, 179999, 3), Float(TRUE, 89999, 3)>> } }

Polygons ==
    { Box(-50, 10, -40, 15), Box(-46, 12, -45, 13), Box(100, -5, 130, 5),
      Box(-50, -50, -40, -40) }

MaxPoints == 2

MaxPolygons == 2

InitBoundary ==
    /\ Start("idle")
    /\ species_name \in SpeciesNames
    /\ min_date = datetime(2020, 1, 1)
    /\ max_date = datetime(2020, 12, 31)
    /\ limit_per_request = 1
    /\ remaining = 0
    /\ raw_data = EmptyFrame
    /\ cleaned_data = EmptyFrame
    /\ validated_georeferencing_data = EmptyFrame
    /\ step = "load"
    /\ csv_file \in SeqsUpTo(CuratedRows, MaxPoints) \ {<<>>}
    /\ shp_file \in {[crs |-> crs, geometry |-> polys] :
                       crs \in {"None", "EPSG:4326", "EPSG:3857"},
                       polys \in SeqsUpTo(Polygons, MaxPolygons)}
    /\ Unloaded

pipelineVars ==
    <<pc, argVars, fetchVars, cleaned_data, validateVars, geoVars, taxoVars,
      taxonomically_validated_data, enriched_data, files, error, recleaned>>

\* load_data
LoadData ==
    /\ step = "load"
    /\ df' = csv_file
    /\ shp' = shp_file
    /\ step' = "validate"
    /\ UNCHANGED <<pipelineVars, csv_file, shp_file, validated_gdf, output>>

ValidatePoints ==
    /\ step = "validate"
    /\ validated_gdf' = validate_points_within_shapefile(df, shp)
    /\ step' = "save"
    /\ UNCHANGED <<pipelineVars, csv_file, shp_file, df, shp, output>>

\* to_csv and the printed counts
SaveResults ==
    /\ step = "save"
    /\ output' =
         [file |-> [i \in 1..Len(validated_gdf.rows) |->
                      [cells |-> validated_gdf.rows[i].cells,
                       geometry |-> validated_gdf.rows[i].geometry,
                       within_shapefile |-> validated_gdf.rows[i].within_shapefile]],
          within |-> Cardinality({i \in 1..Len(validated_gdf.rows) :
                                    validated_gdf.rows[i].within_shapefile}),
          not_within |-> Cardinality({i \in 1..Len(validated_gdf.rows) :
                                        ~validated_gdf.rows[i].within_shapefile})]
    /\ step' = "end"
    /\ UNCHANGED <<pipelineVars, csv_file, shp_file, df, shp, validated_gdf>>

NextBoundary == LoadData \/ ValidatePoints \/ SaveResults

SpecBoundary == InitBoundary /\ [][NextBoundary]_vars

\* C9: every input point gets a flag, no row is dropped or added; the flag is
\* true iff at least one polygon of the boundary set contains the point; the
\* points counted inside and outside add up to the input points.
C9_WithinAnyPolygon ==
    /\ step \in {"save", "end"} =>
         /\ Len(validated_gdf.rows) = Len(csv_file)
         /\ \A i \in 1..Len(csv_file) :
              /\ validated_gdf.rows[i].cells = csv_file[i]
              /\ validated_gdf.rows[i].within_shapefile =
                   (\E k \in 1..Len(shp_file.geometry) :
                      contains(shp_file.geometry[k],
                               Point(csv_file[i]["decimalLongitude"],
                                     csv_file[i]["decimalLatitude"])))
    /\ step = "end" =>
         /\ Len(output.file) = Len(csv_file)
         /\ output.within + output.not_within = Len(csv_file)
         /\ output.within = Cardinality({i \in 1..Len(csv_file) :
                                           output.file[i].within_shapefile})

\* two polygons, a point inside only the first of them and a point inside none
C9_Witness ==
    /\ step = "end"
    /\ Len(shp_file.geometry) = 2
    /\ Len(csv_file) = 2
    /\ contains(shp_file.geometry[1], validated_gdf.rows[1].geometry)
    /\ ~contains(shp_file.geometry[2], validated_gdf.rows[1].geometry)
    /\ validated_gdf.rows[1].within_shapefile
    /\ ~validated_gdf.rows[2].within_shapefile
    /\ output.within = 1 /\ output.not_within = 1
=============================================================================
